---- MODULE Spec2Model ----
(***************************************************************************)
(* Model of pyro/poutine/trace_poutine.py: the tracing messenger, the      *)
(* tracing poutine and the dense-edge builder, together with the parts of  *)
(* the effect-handler runtime they rest on (Trace, Messenger, Poutine,     *)
(* the handler stack and the effect dispatch).                             *)
(***************************************************************************)
EXTENDS Integers, Sequences, FiniteSets, TLC

(***************************************************************************)
(* Bounds                                                                  *)
(***************************************************************************)
\* steps of the computation bound to scope 1
MaxSteps == 2
\* nodes of a trace assembled by hand for the edge builder
MaxNodes == 3
\* replicate counters of a cond_indep_stack frame are 0..MaxCounter
MaxCounter == 1
\* frames of a cond_indep_stack
MaxDepth == 2
\* handlers a caller enters by hand, one inside the other
MaxHandDepth == 3
\* kernel objects constructed in one run
MaxKernels == 3

Scopes == {1, 2}
\* Trace objects: the live trace of scope s is object s, a caller's copy is
\* object CopyId; a Trace nothing refers to any more gives way to the next one
CopyId == 3
ObjIds == Scopes \cup {CopyId}
ArgsSet == {0, 1}
KwargsSet == {5}
SiteNames == {"a", "b"}
ContextNames == {"plate", "other"}

NoValue == -1
NoTrace == [graph_type |-> "none", nodes |-> << >>, edges |-> {}, nwrites |-> 0]

(***************************************************************************)
(* Nodes and traces                                                        *)
(***************************************************************************)
Frame(n, c) == [name |-> n, counter |-> c]
Frames == {Frame(n, c) : n \in ContextNames, c \in 0 .. MaxCounter}

Min(a, b) == IF a < b THEN a ELSE b

SeqRange(s) == {s[i] : i \in 1 .. Len(s)}

\* the contexts nest in one order: "other" is entered inside "plate" or alone
ContextRank(n) == IF n = "plate" THEN 1 ELSE 2

\* stacks of at most MaxDepth frames; a context is not nested in itself
RECURSIVE StacksUpTo(_)
StacksUpTo(d) ==
    IF d = 0 THEN {<< >>}
    ELSE LET shorter == StacksUpTo(d - 1)
         IN shorter \cup
            {Append(s, f) : s \in {t \in shorter : Len(t) = d - 1},
                            f \in Frames}
Stacks == {s \in StacksUpTo(MaxDepth) :
             \A i, j \in 1 .. Len(s) :
                i < j => ContextRank(s[i].name) < ContextRank(s[j].name)}

\* the stacks a subsample pseudo-site is recorded with
SubsampleStacks == {<< >>, <<Frame("plate", 0)>>}

Node(n, t, v, cis, sub, a, kw) ==
    [name |-> n, type |-> t, value |-> v, cond_indep_stack |-> cis,
     subsample |-> sub, args |-> a, kwargs |-> kw]

\* Trace(graph_type=...)
Trace(gt) == [graph_type |-> gt, nodes |-> << >>, edges |-> {}, nwrites |-> 0]

NodeNames(tr) == {tr.nodes[i].name : i \in 1 .. Len(tr.nodes)}

\* name in trace
InTrace(tr, n) == n \in NodeNames(tr)

\* trace.nodes[name]
NodeOf(tr, n) == tr.nodes[CHOOSE i \in 1 .. Len(tr.nodes) : tr.nodes[i].name = n]

\* Trace.add_node: rejects a name that is already present
add_node_ok(tr, n) == ~ InTrace(tr, n)

add_node(tr, node) ==
    [tr EXCEPT !.nodes = Append(@, node), !.nwrites = @ + 1]

\* Trace.add_edge: idempotent
add_edge(edges, p, n) == edges \cup {<<p, n>>}

\* the externally supplied predicate classifying a node as a pseudo-site
site_is_subsample(node) == node.subsample

(***************************************************************************)
(* identify_dense_edges                                                    *)
(***************************************************************************)
\* the frame comparison without the test of the context names
RECURSIVE past_node_independent_any_context(_, _, _)
past_node_independent_any_context(query, target, k) ==
    IF k > Min(Len(query), Len(target)) THEN FALSE
    ELSE IF query[k].counter # target[k].counter THEN TRUE
         ELSE past_node_independent_any_context(query, target, k + 1)

\* for query, target in zip(...): same name, different counter => break
RECURSIVE past_node_independent(_, _, _)
past_node_independent(query, target, k) ==
    IF k > Min(Len(query), Len(target)) THEN FALSE
    ELSE IF query[k].name = target[k].name /\ query[k].counter # target[k].counter
         THEN TRUE
         ELSE past_node_independent(query, target, k + 1)

\* the inner loop leaving at an earlier pseudo-site instead of passing it
RECURSIVE inner_scan_stop_at_subsample(_, _, _, _)
inner_scan_stop_at_subsample(nodes, i, j, edges) ==
    IF j > Len(nodes) THEN edges
    ELSE LET node == nodes[i]
             past_node == nodes[j]
         IN IF site_is_subsample(past_node) THEN edges
            ELSE IF past_node.type = "sample"
                 THEN IF past_node.name = node.name
                      THEN edges
                      ELSE IF ~ past_node_independent(node.cond_indep_stack,
                                                      past_node.cond_indep_stack, 1)
                           THEN inner_scan_stop_at_subsample(nodes, i, j + 1,
                                    add_edge(edges, past_node.name, node.name))
                           ELSE inner_scan_stop_at_subsample(nodes, i, j + 1, edges)
                 ELSE inner_scan_stop_at_subsample(nodes, i, j + 1, edges)

\* the inner loop going on past the current node to the end of the trace
RECURSIVE inner_scan_no_break(_, _, _, _)
inner_scan_no_break(nodes, i, j, edges) ==
    IF j > Len(nodes) THEN edges
    ELSE LET node == nodes[i]
             past_node == nodes[j]
         IN IF site_is_subsample(node)
            THEN inner_scan_no_break(nodes, i, j + 1, edges)
            ELSE IF past_node.type = "sample"
                    /\ ~ past_node_independent(node.cond_indep_stack,
                                               past_node.cond_indep_stack, 1)
                 THEN inner_scan_no_break(nodes, i, j + 1,
                                          add_edge(edges, past_node.name, node.name))
                 ELSE inner_scan_no_break(nodes, i, j + 1, edges)

\* the inner loop over trace.nodes.items() for the current node nodes[i]
RECURSIVE inner_scan(_, _, _, _)
inner_scan(nodes, i, j, edges) ==
    IF j > Len(nodes) THEN edges
    ELSE LET node == nodes[i]
             past_node == nodes[j]
         IN IF site_is_subsample(node)
            THEN inner_scan(nodes, i, j + 1, edges)
            ELSE IF past_node.type = "sample"
                 THEN IF past_node.name = node.name
                      THEN edges
                      ELSE IF ~ past_node_independent(node.cond_indep_stack,
                                                      past_node.cond_indep_stack, 1)
                           THEN inner_scan(nodes, i, j + 1,
                                           add_edge(edges, past_node.name, node.name))
                           ELSE inner_scan(nodes, i, j + 1, edges)
                 ELSE inner_scan(nodes, i, j + 1, edges)

\* the outer loop over trace.nodes.items()
RECURSIVE outer_scan(_, _, _)
outer_scan(nodes, i, edges) ==
    IF i > Len(nodes) THEN edges
    ELSE IF site_is_subsample(nodes[i])
         THEN outer_scan(nodes, i + 1, edges)
         ELSE IF nodes[i].type = "sample"
              THEN outer_scan(nodes, i + 1, inner_scan(nodes, i, 1, edges))
              ELSE outer_scan(nodes, i + 1, edges)

identify_dense_edges(tr) == [tr EXCEPT !.edges = outer_scan(tr.nodes, 1, tr.edges)]

(***************************************************************************)
(* TraceMessenger                                                          *)
(***************************************************************************)
\* the message of one effect occurrence
Msg(t, n, v, cis, sub) ==
    [type |-> t, name |-> n, value |-> v, cond_indep_stack |-> cis,
     subsample |-> sub, done |-> FALSE]

\* the failures of the tracing handler: the three raised by its process hooks,
\* and the one Trace.add_node raises for a name that is already present
ErrAlreadyParam == "RuntimeError: already in the trace as a param"
ErrMultipleSample == "RuntimeError: multiple pyro.sample sites"
ErrAlreadySample == "RuntimeError: already in the trace as a sample"
ErrAddNode == "DuplicateSiteError: site already in trace"
ProcessErrors == {ErrAlreadyParam, ErrMultipleSample, ErrAlreadySample}
DuplicateSiteErrors == ProcessErrors \cup {ErrAddNode}

\* TraceMessenger.__init__
TraceMessenger_init(graph_type_arg) ==
    IF graph_type_arg = "None" THEN "flat" ELSE graph_type_arg

\* TraceMessenger._pyro_sample: "ok", or the error it raises
_pyro_sample(tr, msg) ==
    IF InTrace(tr, msg.name)
    THEN LET site == NodeOf(tr, msg.name)
         IN IF site.type = "param" THEN ErrAlreadyParam
            ELSE IF site.type = "sample" THEN ErrMultipleSample
            ELSE "ok"
    ELSE "ok"

\* _pyro_param without its check against a recorded sample
_pyro_param_unchecked(tr, msg) == "ok"

\* TraceMessenger._pyro_param: "ok", or the error it raises
_pyro_param(tr, msg) ==
    IF InTrace(tr, msg.name)
    THEN IF NodeOf(tr, msg.name).type = "sample" THEN ErrAlreadySample
         ELSE "ok"
    ELSE "ok"

\* Messenger._process_message: dispatch on the effect kind
_process_message(tr, msg) ==
    IF msg.type = "sample" THEN _pyro_sample(tr, msg) ELSE _pyro_param(tr, msg)

\* dict-style write: a node of the same name is replaced where it stands
put_node(tr, node) ==
    IF InTrace(tr, node.name)
    THEN [tr EXCEPT !.nodes = [i \in 1 .. Len(tr.nodes) |->
                                 IF tr.nodes[i].name = node.name THEN node
                                 ELSE tr.nodes[i]],
                    !.nwrites = @ + 1]
    ELSE add_node(tr, node)

\* _postprocess_message writing the node without going through add_node
_postprocess_message_overwrite(tr, msg) ==
    [trace |-> put_node(tr, Node(msg.name, msg.type, msg.value, msg.cond_indep_stack,
                                 msg.subsample, NoValue, NoValue)),
     err |-> "ok"]

\* _postprocess_message writing the node without the settled value
_postprocess_message_unsettled(tr, msg) ==
    IF add_node_ok(tr, msg.name)
    THEN [trace |-> add_node(tr, Node(msg.name, msg.type, NoValue, msg.cond_indep_stack,
                                      msg.subsample, NoValue, NoValue)),
          err |-> "ok"]
    ELSE [trace |-> tr, err |-> ErrAddNode]

\* TraceMessenger._postprocess_message: the trace after the write, or the error
_postprocess_message(tr, msg) ==
    LET val == msg.value
        site == Node(msg.name, msg.type, val, msg.cond_indep_stack,
                     msg.subsample, NoValue, NoValue)
    IN IF add_node_ok(tr, msg.name)
       THEN [trace |-> add_node(tr, site), err |-> "ok"]
       ELSE [trace |-> tr, err |-> ErrAddNode]

\* ExecutionStack.install
install(stk, h) == Append(stk, h)

\* ExecutionStack.uninstall: pops the top, which must be the handler
uninstall(stk, h) ==
    IF Len(stk) > 0 /\ stk[Len(stk)] = h
    THEN [stack |-> SubSeq(stk, 1, Len(stk) - 1), err |-> "ok"]
    ELSE [stack |-> stk, err |-> "StackCorruption"]

\* __exit__ that runs the edge builder whatever the graph_type
TraceMessenger_exit_always_dense(tr, gt, stk, h) ==
    [trace |-> identify_dense_edges(tr),
     stack |-> IF Len(stk) > 0 /\ stk[Len(stk)] = h
               THEN SubSeq(stk, 1, Len(stk) - 1) ELSE stk,
     err |-> IF Len(stk) > 0 /\ stk[Len(stk)] = h THEN "ok" ELSE "StackCorruption"]

\* __exit__ that does not hand over to Messenger.__exit__
TraceMessenger_exit_no_super(tr, gt, stk, h) ==
    [trace |-> IF gt = "dense" THEN identify_dense_edges(tr) ELSE tr,
     stack |-> stk, err |-> "ok"]

\* __exit__ that takes the handler off the stack wherever it stands
TraceMessenger_exit_repair(tr, gt, stk, h) ==
    [trace |-> IF gt = "dense" THEN identify_dense_edges(tr) ELSE tr,
     stack |-> SelectSeq(stk, LAMBDA x : x # h),
     err |-> "ok"]

\* __exit__ without the dense pass
TraceMessenger_exit_never_dense(tr, gt, stk, h) ==
    [trace |-> tr, stack |-> uninstall(stk, h).stack, err |-> uninstall(stk, h).err]

\* TraceMessenger.__exit__: the dense pass, then Messenger.__exit__
TraceMessenger_exit(tr, gt, stk, h) ==
    LET tr1 == IF gt = "dense" THEN identify_dense_edges(tr) ELSE tr
        un == uninstall(stk, h)
    IN [trace |-> tr1, stack |-> un.stack, err |-> un.err]

\* _reset rewriting the input node of the live trace where it stands
_reset_in_place(tr, gt) ==
    put_node(tr, Node("_INPUT", "input", NoValue, << >>, FALSE,
                      NodeOf(tr, "_INPUT").args, NodeOf(tr, "_INPUT").kwargs))

\* TraceMessenger._reset: the trace that replaces the live one
_reset(tr, gt) ==
    add_node(Trace(gt),
             Node("_INPUT", "input", NoValue, << >>, FALSE,
                  NodeOf(tr, "_INPUT").args, NodeOf(tr, "_INPUT").kwargs))

\* Trace.copy: a new Trace with the same nodes and edges
copy(tr) == tr

\* get_trace handing out the live Trace itself
get_trace_live(heap, liveId) == [heap |-> heap, ref |-> liveId]

\* TraceMessenger.get_trace: the object handed to the caller
get_trace(heap, liveId) ==
    [heap |-> [heap EXCEPT ![CopyId] = copy(heap[liveId])], ref |-> CopyId]

(***************************************************************************)
(* Effect dispatch over the handler stack                                  *)
(***************************************************************************)
\* a handler that is not a tracing handler: it resolves every effect
Resolver == 0
Handlers == Scopes \cup {Resolver}
ResolvedValue == 7

\* process_effect of handler h: the message after it, or the error it raises
process_effect(heap, liv, h, msg) ==
    IF h = Resolver
    THEN [err |-> "ok", msg |-> [msg EXCEPT !.done = TRUE, !.value = ResolvedValue]]
    ELSE [err |-> _process_message(heap[liv[h]], msg), msg |-> msg]

\* postprocess_effect of handler h: the traces after it, or the error it raises
postprocess_effect(heap, liv, h, msg) ==
    IF h = Resolver
    THEN [heap |-> heap, err |-> "ok"]
    ELSE LET r == _postprocess_message(heap[liv[h]], msg)
         IN [heap |-> [heap EXCEPT ![liv[h]] = r.trace], err |-> r.err]

Hook(phase, h) == [phase |-> phase, handler |-> h]

\* process phase, innermost handler first; stops at a handler that resolves
RECURSIVE process_walk(_, _, _, _, _, _)
process_walk(heap, liv, stk, i, msg, log) ==
    IF i = 0 \/ msg.done THEN [err |-> "ok", msg |-> msg, log |-> log]
    ELSE LET r == process_effect(heap, liv, stk[i], msg)
             log1 == Append(log, Hook("process", stk[i]))
         IN IF r.err # "ok" THEN [err |-> r.err, msg |-> msg, log |-> log1]
            ELSE process_walk(heap, liv, stk, i - 1, r.msg, log1)

\* postprocess phase, outermost handler first
RECURSIVE postprocess_walk(_, _, _, _, _, _)
postprocess_walk(heap, liv, stk, i, msg, log) ==
    IF i > Len(stk) THEN [heap |-> heap, err |-> "ok", log |-> log]
    ELSE LET r == postprocess_effect(heap, liv, stk[i], msg)
             log1 == Append(log, Hook("postprocess", stk[i]))
         IN IF r.err # "ok" THEN [heap |-> heap, err |-> r.err, log |-> log1]
            ELSE postprocess_walk(r.heap, liv, stk, i + 1, msg, log1)

\* the postprocess phase starting while the innermost handler has not processed
apply_stack_early(heap, liv, stk, msg) ==
    LET p == process_walk(heap, liv, stk, Len(stk) - 1, msg, << >>)
    IN IF p.err # "ok" THEN [heap |-> heap, err |-> p.err, log |-> p.log, msg |-> p.msg]
       ELSE LET q == postprocess_walk(heap, liv, stk, 1, p.msg, p.log)
                l == process_walk(q.heap, liv, <<stk[Len(stk)]>>, 1, p.msg, q.log)
            IN [heap |-> q.heap, err |-> IF q.err # "ok" THEN q.err ELSE l.err,
                log |-> l.log, msg |-> l.msg]

apply_stack(heap, liv, stk, msg) ==
    LET p == process_walk(heap, liv, stk, Len(stk), msg, << >>)
    IN IF p.err # "ok" THEN [heap |-> heap, err |-> p.err, log |-> p.log, msg |-> p.msg]
       ELSE LET q == postprocess_walk(heap, liv, stk, 1, p.msg, p.log)
            IN [heap |-> q.heap, err |-> q.err, log |-> q.log, msg |-> p.msg]

(***************************************************************************)
(* TracePoutine                                                            *)
(***************************************************************************)
\* __call__ that keeps the handler's Trace and only rewrites its input node
call_begin_keep(old, gt, a, kw) ==
    IF old = NoTrace
    THEN add_node(Trace(gt), Node("_INPUT", "args", NoValue, << >>, FALSE, a, kw))
    ELSE put_node(old, Node("_INPUT", "args", NoValue, << >>, FALSE, a, kw))

\* __call__ that takes a new Trace but leaves the edges of the old one in it
call_begin_stale_edges(old, gt, a, kw) ==
    [add_node(Trace(gt), Node("_INPUT", "args", NoValue, << >>, FALSE, a, kw))
        EXCEPT !.edges = old.edges]

\* TracePoutine.__call__, before the computation: the fresh trace that
\* replaces the handler's previous one
call_begin(old, gt, a, kw) ==
    add_node(Trace(gt), Node("_INPUT", "args", NoValue, << >>, FALSE, a, kw))

\* the return node written without the value of the computation
call_end_no_value(tr, ret) ==
    IF add_node_ok(tr, "_RETURN")
    THEN [trace |-> add_node(tr, Node("_RETURN", "return", NoValue, << >>, FALSE,
                                      NoValue, NoValue)),
          err |-> "ok"]
    ELSE [trace |-> tr, err |-> ErrAddNode]

\* TracePoutine.__call__, after the computation: the return node
call_end(tr, ret) ==
    IF add_node_ok(tr, "_RETURN")
    THEN [trace |-> add_node(tr, Node("_RETURN", "return", ret, << >>, FALSE,
                                      NoValue, NoValue)),
          err |-> "ok"]
    ELSE [trace |-> tr, err |-> ErrAddNode]

\* the result of the bound computation
fn_result(a) == a + 10

(***************************************************************************)
(* State                                                                   *)
(***************************************************************************)
VARIABLES
    graph_type,  \* msngr.graph_type of each scope
    script,      \* the steps of each scope's bound computation: for scope 1
                 \* the ones found so far, for scope 2 those of fn2
    closed,      \* whether the end of the computation has been found
    traces,      \* the Trace objects, by identity
    live,        \* msngr.trace of each scope: an object id, 0 before the first call
    copyRef,     \* the Trace object a caller got from get_trace, 0 if none
    stack,       \* the handler stack, innermost last
    frames,      \* the invocations in progress, innermost last
    exc,         \* the failure that is unwinding
    observed,    \* the failure the top-level caller saw
    status,      \* per scope: "new", "active", "returned", "failed", "reset"
    retval,      \* per scope: the value its invocation returned
    memo,        \* per scope and args: the trace of the first successful invocation,
                 \* and whether there were none, one or more of them
    hand,        \* a trace assembled by hand and given to the edge builder
    gp,          \* the kernels constructed so far, by identity, the last
                 \* constructor call and its outcome
    calls        \* the hooks invoked for the last effect, in order, the stack
                 \* they were dispatched over and the outcome

vars == <<graph_type, script, closed, traces, live, copyRef, stack, frames,
          exc, observed, status, retval, memo, hand, gp, calls>>

sysvars == <<graph_type, script, closed, traces, live, copyRef, stack, frames,
             exc, observed, status, retval, memo, calls>>

NoCalls == [stack |-> << >>, log |-> << >>, err |-> "ok",
            sent |-> Msg("none", "", NoValue, << >>, FALSE),
            msg |-> Msg("none", "", NoValue, << >>, FALSE)]

SiteStacks == {<< >>, <<Frame("plate", 0)>>, <<Frame("plate", 1)>>}

Step(op, n, cis, sub) ==
    [op |-> op, name |-> n, cond_indep_stack |-> cis, subsample |-> sub]

\* what the computation of scope 1 can do next: an effect, a failure that
\* depends on its arguments, or an invocation of scope 2
Steps ==
    {Step("sample", n, cis, FALSE) : n \in SiteNames, cis \in SiteStacks}
    \cup {Step("sample", "b", << >>, TRUE), Step("param", "a", << >>, FALSE)}
    \cup {Step("raise", "", << >>, FALSE)}
    \cup {Step("call", "", << >>, FALSE)}

\* the computation bound to scope 2
fn2 ==
    <<Step("sample", "b", <<Frame("plate", 0)>>, FALSE),
      Step("sample", "c", << >>, FALSE),
      Step("raise", "", << >>, FALSE)>>

AllSteps == Steps \cup SeqRange(fn2)

Contents(tr) == [nodes |-> tr.nodes, edges |-> tr.edges]
NoContents == [nodes |-> << >>, edges |-> {}]

Init ==
    /\ \E g \in {"None", "flat", "dense"} :
         graph_type = [s \in Scopes |->
                         IF s = 1 THEN TraceMessenger_init(g)
                         ELSE TraceMessenger_init(IF g = "dense" THEN "None" ELSE "dense")]
    /\ script = [s \in Scopes |-> IF s = 2 THEN fn2 ELSE << >>]
    /\ closed = [s \in Scopes |-> s = 2]
    /\ traces = [i \in ObjIds |-> NoTrace]
    /\ live = [s \in Scopes |-> 0]
    /\ copyRef = 0
    /\ stack = << >>
    /\ frames = << >>
    /\ exc = "None"
    /\ observed = "None"
    /\ status = [s \in Scopes |-> "new"]
    /\ retval = [s \in Scopes |-> NoValue]
    /\ memo = [s \in Scopes |-> [a \in ArgsSet |-> [trace |-> NoContents, seen |-> 0]]]
    /\ hand = [trace |-> Trace("dense"), ran |-> FALSE]
    /\ calls = NoCalls
    /\ gp = [heap |-> << >>, err |-> "ok",
             call |-> [op |-> "none", kern |-> 0, other |-> [kind |-> "other", ref |-> 0]]]

Top == frames[Len(frames)]
Pop(q) == SubSeq(q, 1, Len(q) - 1)

\* the step the running computation takes at its position: the one found
\* before, or a new one while the computations are short enough
NextSteps ==
    LET s == Top.scope
    IN IF Top.pc <= Len(script[s]) THEN {script[s][Top.pc]}
       ELSE IF closed[s] \/ Len(script[s]) >= MaxSteps THEN {}
       ELSE Steps

Record(st) ==
    LET s == Top.scope
    IN IF Top.pc <= Len(script[s]) THEN script
       ELSE [script EXCEPT ![s] = Append(@, st)]

Running == frames # << >> /\ exc = "None"

Advance == [frames EXCEPT ![Len(frames)].pc = @ + 1]

(***************************************************************************)
(* Operations                                                              *)
(***************************************************************************)
\* TracePoutine.__call__ up to the start of the computation
Enter(s, a, kw, mode) ==
    /\ traces' = [traces EXCEPT ![s] = call_begin(traces[s], graph_type[s], a, kw)]
    /\ live' = [live EXCEPT ![s] = s]
    /\ stack' = install(stack, s)
    /\ frames' = Append(frames, [scope |-> s, pc |-> 1, args |-> a, kwargs |-> kw,
                                 pre |-> stack, mode |-> mode])
    /\ status' = [status EXCEPT ![s] = "active"]
    /\ retval' = [retval EXCEPT ![s] = NoValue]

\* a caller outside any computation invokes scope 1, by __call__ or get_trace
Call(s, a, kw, mode) ==
    /\ frames = << >>
    /\ mode = "get_trace" => copyRef = 0
    /\ Enter(s, a, kw, mode)
    /\ observed' = "None"
    /\ calls' = NoCalls
    /\ UNCHANGED <<graph_type, script, closed, copyRef, exc, memo, hand, gp>>

\* the computation of scope 1 invokes scope 2 with its own arguments
NestedCall ==
    /\ Running
    /\ \E st \in NextSteps :
         /\ st.op = "call"
         /\ script' = Record(st)
         /\ Enter(2, Top.args, Top.kwargs, "call")
    /\ UNCHANGED <<graph_type, closed, copyRef, exc, observed, memo, hand, gp, calls>>

\* pyro.sample / pyro.param inside the running computation
Effect ==
    /\ Running
    /\ \E st \in NextSteps :
         /\ st.op \in {"sample", "param"}
         /\ script' = Record(st)
         /\ LET msg == Msg(st.op, st.name, Top.args, st.cond_indep_stack, st.subsample)
                r == apply_stack(traces, live, stack, msg)
            IN /\ traces' = r.heap
               /\ calls' = [stack |-> stack, log |-> r.log, err |-> r.err,
                            sent |-> msg, msg |-> r.msg]
               /\ IF r.err = "ok"
                  THEN /\ frames' = Advance
                       /\ exc' = "None"
                  ELSE /\ frames' = frames
                       /\ exc' = r.err
    /\ UNCHANGED <<graph_type, closed, live, copyRef, stack, observed, status,
                   retval, memo, hand, gp>>

\* the computation fails by itself when its argument is 1
Raise ==
    /\ Running
    /\ \E st \in NextSteps :
         /\ st.op = "raise"
         /\ script' = Record(st)
         /\ IF Top.args = 1
            THEN /\ frames' = frames
                 /\ exc' = "UserError"
            ELSE /\ frames' = Advance
                 /\ exc' = "None"
    /\ UNCHANGED <<graph_type, closed, traces, live, copyRef, stack, observed,
                   status, retval, memo, hand, gp, calls>>

\* TracePoutine.__call__ once the computation has returned: the handler's
\* exit, then the return node
call_finish(tr, gt, stk, h, ret) ==
    LET ex == TraceMessenger_exit(tr, gt, stk, h)
    IN IF ex.err # "ok"
       THEN [trace |-> ex.trace, stack |-> ex.stack, err |-> ex.err, ret |-> NoValue]
       ELSE LET ce == call_end(ex.trace, ret)
            IN [trace |-> ce.trace, stack |-> ex.stack, err |-> ce.err,
                ret |-> IF ce.err = "ok" THEN ret ELSE NoValue]

\* the failure err leaves the innermost invocation: it goes on unwinding in
\* the invoking computation, or the top-level caller sees it
Propagate(err) ==
    IF Len(frames) = 1
    THEN /\ exc' = "None"
         /\ observed' = err
    ELSE /\ exc' = err
         /\ observed' = observed

\* the computation returns normally
Return ==
    /\ Running
    /\ Top.pc > Len(script[Top.scope])
    /\ closed' = [closed EXCEPT ![Top.scope] = TRUE]
    /\ LET f == Top
           s == f.scope
           r == call_finish(traces[live[s]], graph_type[s], stack, s, fn_result(f.args))
           heap == [traces EXCEPT ![live[s]] = r.trace]
       IN /\ stack' = r.stack
          /\ IF r.err = "ok"
             THEN /\ status' = [status EXCEPT ![s] = "returned"]
                  /\ retval' = [retval EXCEPT ![s] = r.ret]
                  /\ memo' = [memo EXCEPT ![s][f.args] =
                                 IF @.seen = 0
                                 THEN [trace |-> Contents(r.trace), seen |-> 1]
                                 ELSE [@ EXCEPT !.seen = 2]]
                  /\ frames' = IF Len(frames) = 1 THEN << >>
                               ELSE [Pop(frames) EXCEPT ![Len(frames) - 1].pc = @ + 1]
                  /\ UNCHANGED <<exc, observed>>
                  /\ IF f.mode = "get_trace"
                     THEN LET g == get_trace(heap, live[s])
                          IN /\ copyRef' = g.ref
                             /\ traces' = g.heap
                     ELSE /\ copyRef' = copyRef
                          /\ traces' = heap
             ELSE /\ status' = [status EXCEPT ![s] = "failed"]
                  /\ frames' = Pop(frames)
                  /\ Propagate(r.err)
                  /\ traces' = heap
                  /\ UNCHANGED <<retval, memo, copyRef>>
    /\ UNCHANGED <<graph_type, script, live, hand, gp, calls>>

\* a failure leaves the innermost invocation through the handler's exit
Unwind ==
    /\ frames # << >>
    /\ exc # "None"
    /\ LET s == Top.scope
           ex == TraceMessenger_exit(traces[live[s]], graph_type[s], stack, s)
       IN /\ traces' = [traces EXCEPT ![live[s]] = ex.trace]
          /\ stack' = ex.stack
          /\ status' = [status EXCEPT ![s] = "failed"]
          /\ frames' = Pop(frames)
          /\ Propagate(IF ex.err # "ok" THEN ex.err ELSE exc)
    /\ UNCHANGED <<graph_type, script, closed, live, copyRef, retval, memo, hand, gp, calls>>

\* TraceMessenger.get_trace, called on the handler at any moment by a caller
\* that holds no copy yet
GetTrace(s) ==
    /\ live[s] # 0
    /\ exc = "None"
    /\ copyRef = 0
    /\ frames # << >> => frames[1].mode = "call"
    /\ LET g == get_trace(traces, live[s])
       IN /\ copyRef' = g.ref
          /\ traces' = g.heap
    /\ UNCHANGED <<graph_type, script, closed, live, stack, frames, exc, observed,
                   status, retval, memo, hand, gp, calls>>

\* TraceMessenger._reset, called between invocations
Reset(s) ==
    /\ frames = << >>
    /\ live[s] # 0
    /\ InTrace(traces[live[s]], "_INPUT")
    /\ traces' = [traces EXCEPT ![s] = _reset(traces[live[s]], graph_type[s])]
    /\ status' = [status EXCEPT ![s] = "reset"]
    /\ UNCHANGED <<graph_type, script, closed, live, copyRef, stack, frames, exc,
                   observed, retval, memo, hand, gp, calls>>

\* the caller lets go of the copy it holds
DropCopy ==
    /\ copyRef # 0
    /\ copyRef' = 0
    /\ traces' = [traces EXCEPT ![CopyId] = NoTrace]
    /\ UNCHANGED <<graph_type, script, closed, live, stack, frames, exc, observed,
                   status, retval, memo, hand, gp, calls>>

Next ==
    \/ \E a \in ArgsSet, kw \in KwargsSet, mode \in {"call", "get_trace"} :
         Call(1, a, kw, mode)
    \/ NestedCall
    \/ Effect
    \/ Raise
    \/ Return
    \/ Unwind
    \/ \E s \in Scopes : GetTrace(s)
    \/ \E s \in Scopes : Reset(s)
    \/ DropCopy

Spec == Init /\ [][Next]_vars

(***************************************************************************)
(* The edge builder on a trace assembled by hand                           *)
(***************************************************************************)
HandNodes(k) ==
    {Node(ToString(k), "sample", 0, cis, FALSE, NoValue, NoValue) : cis \in Stacks}
    \cup {Node(ToString(k), "sample", 0, cis, TRUE, NoValue, NoValue) :
            cis \in SubsampleStacks}
    \cup {Node(ToString(k), t, 0, << >>, FALSE, NoValue, NoValue) :
            t \in {"param", "input", "return"}}

\* Trace.add_node by a caller that builds a trace
HandAdd ==
    /\ ~ hand.ran
    /\ Len(hand.trace.nodes) < MaxNodes
    /\ \E node \in HandNodes(Len(hand.trace.nodes) + 1) :
         /\ add_node_ok(hand.trace, node.name)
         /\ hand' = [hand EXCEPT !.trace = add_node(@, node)]
    /\ UNCHANGED <<sysvars, gp>>

\* identify_dense_edges(trace)
HandRun ==
    /\ ~ hand.ran
    /\ hand' = [trace |-> identify_dense_edges(hand.trace), ran |-> TRUE]
    /\ UNCHANGED <<sysvars, gp>>

NextEdges == HandAdd \/ HandRun

InitEdges ==
    /\ Init
    /\ graph_type[1] = "dense"

SpecEdges == InitEdges /\ [][NextEdges]_vars

(***************************************************************************)
(* The handlers used as context managers by hand                           *)
(***************************************************************************)
\* no invocation is in progress, both handlers hold the trace of one (the
\* computation of scope 1 does nothing but invoke scope 2), and the caller
\* has seen no failure since the last invocation began
Idle ==
    /\ frames = << >>
    /\ exc = "None"
    /\ observed = "None"
    /\ script[1] = <<Step("call", "", << >>, FALSE)>>
    /\ copyRef = 0
    /\ \A s \in Scopes : status[s] = "returned"

\* Messenger.__enter__ of handler h, called by a caller outside any scope
HandlerEnter(h) ==
    /\ Idle
    /\ Len(stack) < MaxHandDepth
    /\ stack' = install(stack, h)
    /\ UNCHANGED <<graph_type, script, closed, traces, live, copyRef, frames, exc,
                   observed, status, retval, memo, hand, gp, calls>>

\* TraceMessenger.__exit__ of handler h, called by a caller outside any scope
HandlerExit(h) ==
    /\ Idle
    /\ LET ex == TraceMessenger_exit(traces[live[h]], graph_type[h], stack, h)
       IN /\ traces' = [traces EXCEPT ![live[h]] = ex.trace]
          /\ stack' = ex.stack
          /\ observed' = IF ex.err # "ok" THEN ex.err ELSE observed
    /\ UNCHANGED <<graph_type, script, closed, live, copyRef, frames, exc, status,
                   retval, memo, hand, gp, calls>>

\* Messenger.__exit__ of the resolving handler, called by hand
ResolverExit ==
    /\ Idle
    /\ LET un == uninstall(stack, Resolver)
       IN /\ stack' = un.stack
          /\ observed' = IF un.err # "ok" THEN un.err ELSE observed
    /\ UNCHANGED <<graph_type, script, closed, traces, live, copyRef, frames, exc,
                   status, retval, memo, hand, gp, calls>>

\* pyro.sample called by hand inside the handlers entered by hand
HandEffect ==
    /\ Idle
    /\ stack # << >>
    /\ LET msg == Msg("sample", "h", 0, << >>, FALSE)
           r == apply_stack(traces, live, stack, msg)
       IN /\ traces' = r.heap
          /\ calls' = [stack |-> stack, log |-> r.log, err |-> r.err,
                       sent |-> msg, msg |-> r.msg]
          /\ observed' = IF r.err # "ok" THEN r.err ELSE observed
    /\ UNCHANGED <<graph_type, script, closed, live, copyRef, stack, frames, exc,
                   status, retval, memo, hand, gp>>

\* no effect dispatched by hand is recorded
NoHandSites == \A o \in ObjIds : ~ InTrace(traces[o], "h")

\* the scopes run as before until a caller enters handlers by hand and
\* dispatches an effect
NextStack ==
    \/ (frames # << >> \/ stack = << >>) /\ NoHandSites /\ Next
    \/ \E h \in Handlers : HandlerEnter(h)
    \/ \E h \in Scopes : HandlerExit(h)
    \/ ResolverExit
    \/ HandEffect

SpecStack == Init /\ [][NextStack]_vars

(***************************************************************************)
(* Kernels                                                                 *)
(***************************************************************************)
KernelNames == {"a", "b"}

\* a coefficient of the output warping polynomial: a Python int or a float
IntCoef(v) == [int |-> TRUE, val |-> v]
FloatCoef(v) == [int |-> FALSE, val |-> v]

\* the lists tried as owarping_coef
CoefLists ==
    {<< >>,
     <<IntCoef(0)>>,
     <<FloatCoef(1)>>,
     <<IntCoef(0), IntCoef(1)>>,
     <<FloatCoef(-1), IntCoef(1)>>,
     <<IntCoef(1), IntCoef(-1)>>}

\* an optional argument: None, or a list
NoList == [none |-> TRUE, list |-> << >>]
List(q) == [none |-> FALSE, list |-> q]

\* the operands of a combination: a kernel object, a number, anything else
KernelRef(i) == [kind |-> "kernel", ref |-> i]
Number == [kind |-> "number", ref |-> 0]
Other == [kind |-> "other", ref |-> 0]

SeqSet(q) == {q[i] : i \in 1 .. Len(q)}

\* sorted(set)
RECURSIVE Sorted(_)
Sorted(S) ==
    IF S = {} THEN << >>
    ELSE LET lo == CHOOSE x \in S : \A y \in S : x <= y
         IN <<lo>> \o Sorted(S \ {lo})

RECURSIVE Sum(_)
Sum(q) == IF q = << >> THEN 0 ELSE q[1].val + Sum(Tail(q))

\* Kernel.__init__: the new object, or the error raised
Kernel_init(cls, input_dim, active_dims, name) ==
    IF ~ active_dims.none /\ input_dim # Len(active_dims.list)
    THEN [err |-> "ValueError"]
    ELSE [err |-> "ok",
          kernel |-> [cls |-> cls, name |-> name, input_dim |-> input_dim,
                      active_dims |-> IF active_dims.none
                                      THEN [i \in 1 .. input_dim |-> i - 1]
                                      ELSE active_dims.list,
                      _subkernels |-> << >>,
                      kern0 |-> 0, kern1 |-> Other, owarping_coef |-> NoList]]

Entry(n, i) == [name |-> n, kernel |-> i]

\* name in self._subkernels
HasSubkernel(sub, n) == \E j \in 1 .. Len(sub) : sub[j].name = n

\* Kernel.get_subkernel: the kernel object, or KeyError
get_subkernel(k, n) ==
    IF HasSubkernel(k._subkernels, n)
    THEN [err |-> "ok",
          kernel |-> k._subkernels[CHOOSE j \in 1 .. Len(k._subkernels) :
                                      k._subkernels[j].name = n].kernel]
    ELSE [err |-> "KeyError"]

\* the registry a constructor takes over from the operand i: the operand's
\* own registry, or the operand itself under its name
Inherited(heap, i) ==
    IF heap[i]._subkernels # << >> THEN heap[i]._subkernels
    ELSE <<Entry(heap[i].name, i)>>

\* the loop without the identity test: a name already registered is kept
RECURSIVE merge_subkernels_first_wins(_, _, _)
merge_subkernels_first_wins(sub, sub1, j) ==
    IF j > Len(sub1) THEN [err |-> "ok", sub |-> sub]
    ELSE IF HasSubkernel(sub, sub1[j].name)
         THEN merge_subkernels_first_wins(sub, sub1, j + 1)
         ELSE merge_subkernels_first_wins(Append(sub, sub1[j]), sub1, j + 1)

\* the loop over subkernels1.items(), from its j-th entry on
RECURSIVE merge_subkernels(_, _, _)
merge_subkernels(sub, sub1, j) ==
    IF j > Len(sub1) THEN [err |-> "ok", sub |-> sub]
    ELSE IF HasSubkernel(sub, sub1[j].name)
         THEN IF \E e \in SeqSet(sub) : e.name = sub1[j].name /\ e.kernel # sub1[j].kernel
              THEN [err |-> "KeyError", sub |-> sub]
              ELSE merge_subkernels(sub, sub1, j + 1)
         ELSE merge_subkernels(Append(sub, sub1[j]), sub1, j + 1)

\* the partial-overlap test left out
overlap_error_never(active_dims, active_dims1) == FALSE

\* lines 161-167: the two sets neither coincide nor are disjoint
overlap_error(active_dims, active_dims1) ==
    /\ active_dims # active_dims1
    /\ active_dims \cap active_dims1 # {}

\* Combination.__init__ (Sum, Product)
Combination_init(heap, cls, o0, o1, name) ==
    IF o0.kind # "kernel" THEN [err |-> "TypeError"]
    ELSE IF o1.kind \notin {"kernel", "number"} THEN [err |-> "TypeError"]
    ELSE LET kern0 == heap[o0.ref]
             dims0 == SeqSet(kern0.active_dims)
             dims1 == IF o1.kind = "kernel" THEN SeqSet(heap[o1.ref].active_dims) ELSE {}
         IN IF o1.kind = "kernel" /\ overlap_error(dims0, dims1)
            THEN [err |-> "ValueError"]
            ELSE LET active_dims == Sorted(dims0 \cup dims1)
                     input_dim == Len(active_dims)
                     base == Kernel_init(cls, input_dim, List(active_dims), name)
                 IN IF base.err # "ok" THEN base
                    ELSE LET sub0 == Inherited(heap, o0.ref)
                             m == IF o1.kind = "kernel"
                                  THEN merge_subkernels(sub0, Inherited(heap, o1.ref), 1)
                                  ELSE [err |-> "ok", sub |-> sub0]
                         IN IF m.err # "ok" THEN [err |-> m.err]
                            ELSE [err |-> "ok",
                                  kernel |-> [base.kernel EXCEPT
                                                !.kern0 = o0.ref,
                                                !.kern1 = o1,
                                                !._subkernels = m.sub]]

\* Transforming.__init__ (Exponent, VerticalScaling, Warping)
Transforming_init(heap, cls, i, name) ==
    LET kern == heap[i]
        base == Kernel_init(cls, kern.input_dim, List(kern.active_dims), name)
    IN IF base.err # "ok" THEN base
       ELSE [err |-> "ok",
             kernel |-> [base.kernel EXCEPT !.kern0 = i,
                                            !._subkernels = Inherited(heap, i)]]

\* lines 302-304: a coefficient that makes the constructor raise
bad_coef(coef) == ~ coef.int /\ coef.val < 0

\* Warping.__init__
Warping_init(heap, i, owarping_coef, name) ==
    LET t == Transforming_init(heap, "Warping", i, name)
    IN IF t.err # "ok" THEN t
       ELSE IF ~ owarping_coef.none
               /\ \E c \in SeqSet(owarping_coef.list) : bad_coef(c)
            THEN [err |-> "ValueError"]
       ELSE IF ~ owarping_coef.none
               /\ Len(owarping_coef.list) < 2 /\ Sum(owarping_coef.list) = 0
            THEN [err |-> "ValueError"]
       ELSE [err |-> "ok", kernel |-> [t.kernel EXCEPT !.owarping_coef = owarping_coef]]

KernelCall(op, i, o) == [op |-> op, kern |-> i, other |-> o]

\* the constructor call ends: a new object, or the error and nothing new
Constructed(call, r) ==
    /\ gp' = IF r.err = "ok"
             THEN [heap |-> Append(gp.heap, r.kernel), err |-> "ok", call |-> call]
             ELSE [heap |-> gp.heap, err |-> r.err, call |-> call]
    /\ UNCHANGED <<sysvars, hand>>

Room == Len(gp.heap) < MaxKernels
KernelIds == 1 .. Len(gp.heap)
Operands == {KernelRef(i) : i \in KernelIds} \cup {Number, Other}

\* Kernel(input_dim, active_dims, name)
NewKernel(input_dim, active_dims, name) ==
    /\ Room
    /\ Constructed(KernelCall("Kernel", 0, Other),
                   Kernel_init("Kernel", input_dim, active_dims, name))

\* kern.add(other)
Add(i, other) ==
    /\ Room
    /\ Constructed(KernelCall("add", i, other),
                   Combination_init(gp.heap, "Sum", KernelRef(i), other, "None"))

\* kern.mul(other)
Mul(i, other) ==
    /\ Room
    /\ Constructed(KernelCall("mul", i, other),
                   Combination_init(gp.heap, "Product", KernelRef(i), other, "None"))

\* kern.exp()
Exp(i) ==
    /\ Room
    /\ Constructed(KernelCall("exp", i, Other),
                   Transforming_init(gp.heap, "Exponent", i, "None"))

\* kern.vertical_scale(vscaling_fn)
VerticalScale(i) ==
    /\ Room
    /\ Constructed(KernelCall("vertical_scale", i, Other),
                   Transforming_init(gp.heap, "VerticalScaling", i, "None"))

\* kern.warp(owarping_coef=...)
Warp(i, owarping_coef) ==
    /\ Room
    /\ Constructed(KernelCall("warp", i, Other),
                   Warping_init(gp.heap, i, owarping_coef, "None"))

DimsArgs == {NoList, List(<<0>>), List(<<1>>), List(<<0, 1>>)}

CoefArgs == {NoList} \cup {List(q) : q \in CoefLists}

NextKernel ==
    \/ \E d \in {1, 2}, ad \in DimsArgs, n \in KernelNames : NewKernel(d, ad, n)
    \/ \E i \in KernelIds, o \in Operands : Add(i, o)
    \/ \E i \in KernelIds, o \in Operands : Mul(i, o)
    \/ \E i \in KernelIds : Exp(i)
    \/ \E i \in KernelIds : VerticalScale(i)
    \/ \E i \in KernelIds, c \in CoefArgs : Warp(i, c)

InitKernel ==
    /\ Init
    /\ graph_type[1] = "dense"

SpecKernel == InitKernel /\ [][NextKernel]_vars

(***************************************************************************)
(* Properties                                                              *)
(***************************************************************************)
LiveTraces == {traces[live[s]] : s \in {t \in Scopes : live[t] # 0}}

\* the traces of the handlers that are on the stack
ActiveTraces == {traces[live[stack[i]]] : i \in 1 .. Len(stack)}

\* this step dispatches the effect of step st of the running computation
EffectStep(st) ==
    /\ Running
    /\ Top.pc <= Len(script'[Top.scope])
    /\ st = script'[Top.scope][Top.pc]
    /\ st.op \in {"sample", "param"}
    /\ (frames' = Advance \/ exc' # "None")

\* this step takes a failure out of the innermost invocation
FailureLeaves ==
    /\ frames # << >>
    /\ exc # "None"
    /\ Len(frames') < Len(frames)

\* C1: when a failure of the bound computation reaches the caller of an
\* invocation, the handler stack is what it was before the invocation and
\* the failure is the one that was raised
C1_ExceptionSafe ==
    [][FailureLeaves =>
         /\ stack' = Top.pre
         /\ IF Len(frames) = 1
            THEN observed' = exc /\ exc' = "None"
            ELSE exc' = exc]_vars

\* a DuplicateSiteError raised in a nested dense invocation has reached the
\* top-level caller through both handlers
C1_Witness ==
    /\ frames = << >>
    /\ stack = << >>
    /\ observed \in ProcessErrors
    /\ status[1] = "failed"
    /\ status[2] = "failed"
    /\ graph_type[2] = "dense"
    /\ InTrace(traces[1], "b")
    /\ ~ InTrace(traces[2], "b")

\* the kind of node that makes effect st a duplicate in trace tr
Recorded(tr, st, kind) ==
    InTrace(tr, st.name) /\ NodeOf(tr, st.name).type = kind

\* C2: a sample effect at a name recorded as sample or as param, and a param
\* effect at a name recorded as sample, fail in the process phase, before
\* any node is written, and leave the recorded node as it is
C2_DuplicateRaises ==
    [][\A st \in AllSteps :
         /\ EffectStep(st)
         /\ \E tr \in ActiveTraces :
              \/ st.op = "sample" /\ Recorded(tr, st, "sample")
              \/ st.op = "sample" /\ Recorded(tr, st, "param")
              \/ st.op = "param" /\ Recorded(tr, st, "sample")
         => /\ exc' \in ProcessErrors
            /\ traces' = traces
            /\ LET tr == traces[live[Top.scope]]
               IN /\ st.op = "sample" /\ Recorded(tr, st, "sample")
                       => exc' = ErrMultipleSample
                  /\ st.op = "sample" /\ Recorded(tr, st, "param")
                       => exc' = ErrAlreadyParam
                  /\ st.op = "param" /\ Recorded(tr, st, "sample")
                       => exc' = ErrAlreadySample]_vars

\* a param effect at a name recorded as sample has just failed
C2_Witness ==
    /\ exc = ErrAlreadySample
    /\ frames # << >>
    /\ Recorded(traces[live[Top.scope]], script[Top.scope][Top.pc], "sample")
    /\ traces[live[Top.scope]].nwrites = 2

WriteOnce ==
    \A tr \in LiveTraces :
        /\ tr.nwrites = Len(tr.nodes)
        /\ Cardinality(NodeNames(tr)) = Len(tr.nodes)

ParamTwiceFails ==
    \A st \in AllSteps :
        /\ EffectStep(st)
        /\ st.op = "param"
        /\ \E tr \in ActiveTraces : Recorded(tr, st, "param")
        => /\ exc' \in DuplicateSiteErrors
           /\ traces' = traces

\* C3: at most one node is ever written per name of a trace, and a second
\* param effect at the name of a param node fails instead of overwriting it
C3_WriteOnce == []WriteOnce /\ [][ParamTwiceFails]_vars

\* a second param effect at the same name has just been rejected
C3_Witness ==
    /\ exc = ErrAddNode
    /\ frames # << >>
    /\ script[Top.scope][Top.pc].op = "param"
    /\ Recorded(traces[live[Top.scope]], script[Top.scope][Top.pc], "param")

\* the frames of two stacks differ only in counter at some position
Independent(q, t) ==
    \E k \in 1 .. Min(Len(q), Len(t)) :
        q[k].name = t[k].name /\ q[k].counter # t[k].counter

HasSubsample(tr) == \E i \in 1 .. Len(tr.nodes) : tr.nodes[i].subsample

\* C4: on a trace without pseudo-sites the builder joins an earlier sample
\* node P to a later sample node N exactly when no position of the shorter
\* stack holds frames of the same context with different counters
C4_DenseEdges ==
    hand.ran /\ ~ HasSubsample(hand.trace) =>
        \A i, j \in 1 .. Len(hand.trace.nodes) :
            LET P == hand.trace.nodes[i]
                N == hand.trace.nodes[j]
            IN i < j /\ P.type = "sample" /\ N.type = "sample" =>
                 (<<P.name, N.name>> \in hand.trace.edges
                    <=> ~ Independent(N.cond_indep_stack, P.cond_indep_stack))

\* x@0 in (plate,0), x@1 in (plate,1), then y outside any context: y gets an
\* edge from both, and none joins x@0 and x@1
C4_Witness ==
    /\ hand.ran
    /\ Len(hand.trace.nodes) = 3
    /\ \A i \in 1 .. 3 : hand.trace.nodes[i].type = "sample"
                         /\ ~ hand.trace.nodes[i].subsample
    /\ hand.trace.nodes[1].cond_indep_stack = <<Frame("plate", 0)>>
    /\ hand.trace.nodes[2].cond_indep_stack = <<Frame("plate", 1)>>
    /\ hand.trace.nodes[3].cond_indep_stack = << >>
    /\ hand.trace.edges = {<<"1", "3">>, <<"2", "3">>}

\* C5: a trace of graph_type flat never has an edge
C5_FlatNoEdges ==
    \A o \in ObjIds : traces[o].graph_type = "flat" => traces[o].edges = {}

\* a flat invocation has returned with sample nodes the builder would join
C5_Witness ==
    /\ graph_type[1] = "flat"
    /\ status[1] = "returned"
    /\ traces[1].edges = {}
    /\ identify_dense_edges(traces[1]).edges # {}

\* C6: no edge starts or ends at a subsample pseudo-site
C6_NoPseudoSiteEdges ==
    \A o \in ObjIds :
        \A e \in traces[o].edges :
            /\ ~ site_is_subsample(NodeOf(traces[o], e[1]))
            /\ ~ site_is_subsample(NodeOf(traces[o], e[2]))

Strip(tr) ==
    [tr EXCEPT !.nodes = SelectSeq(tr.nodes, LAMBDA n : ~ n.subsample),
               !.edges = {}]

OrdinaryEdges(tr) ==
    {e \in tr.edges : /\ ~ NodeOf(tr, e[1]).subsample
                      /\ ~ NodeOf(tr, e[2]).subsample}

\* C7: the edges between ordinary sample sites are those the builder adds to
\* the trace without its pseudo-sites
C7_PseudoSitesTransparent ==
    hand.ran => OrdinaryEdges(hand.trace) = identify_dense_edges(Strip(hand.trace)).edges

\* a pseudo-site stands between two ordinary sample sites that are joined
C7_Witness ==
    /\ hand.ran
    /\ Len(hand.trace.nodes) = 3
    /\ \A i \in 1 .. 3 : hand.trace.nodes[i].type = "sample"
    /\ ~ hand.trace.nodes[1].subsample
    /\ hand.trace.nodes[2].subsample
    /\ ~ hand.trace.nodes[3].subsample
    /\ <<"1", "3">> \in hand.trace.edges

\* C8: the Trace a caller got from get_trace stays as it was returned,
\* whatever happens later to the handler it came from
C8_Snapshot ==
    [][copyRef # 0 /\ copyRef' = copyRef => traces'[copyRef] = traces[copyRef]]_vars

\* the caller holds the complete trace of one invocation of scope 1 while
\* the live trace of scope 1 belongs to a later invocation with other args
C8_Witness ==
    /\ copyRef # 0
    /\ traces[copyRef].graph_type = graph_type[1]
    /\ InTrace(traces[copyRef], "_RETURN")
    /\ live[1] # 0
    /\ NodeOf(traces[1], "_INPUT").args # NodeOf(traces[copyRef], "_INPUT").args
    /\ Len(traces[1].nodes) > 1

\* C9: an invocation that returns leaves the nodes and edges of the first
\* successful invocation of the same scope with the same arguments, and an
\* invocation from outside any handler with the arguments of an earlier
\* successful one does not fail
C9_Deterministic ==
    /\ \A s \in Scopes :
         status[s] = "returned" =>
            LET a == NodeOf(traces[s], "_INPUT").args
            IN /\ memo[s][a].seen > 0
               /\ Contents(traces[s]) = memo[s][a].trace
    /\ status[1] = "failed" => memo[1][NodeOf(traces[1], "_INPUT").args].seen = 0

\* scope 1 has returned again for args 0, with sites and edges in its trace,
\* and its computation fails for args 1
C9_Witness ==
    /\ status[1] = "returned"
    /\ NodeOf(traces[1], "_INPUT").args = 0
    /\ memo[1][0].seen = 2
    /\ traces[1].edges # {}
    /\ \E i \in 1 .. Len(script[1]) : script[1][i].op = "raise"

C10_State ==
    /\ \A i \in 1 .. Len(frames) :
         LET first == traces[frames[i].scope].nodes[1]
         IN /\ first.name = "_INPUT"
            /\ first.args = frames[i].args
            /\ first.kwargs = frames[i].kwargs
    /\ \A s \in Scopes :
         LET tr == traces[s]
             n == Len(tr.nodes)
         IN /\ status[s] = "returned" =>
                 /\ n >= 2
                 /\ tr.nodes[1].name = "_INPUT"
                 /\ tr.nodes[n].name = "_RETURN"
                 /\ tr.nodes[n].type = "return"
                 /\ tr.nodes[n].value = retval[s]
                 /\ \A i \in 2 .. n - 1 : tr.nodes[i].type \in {"sample", "param"}
            /\ status[s] \in {"active", "failed"} =>
                 /\ tr.nodes[1].name = "_INPUT"
                 /\ \A i \in 1 .. n : tr.nodes[i].type # "return"
                 /\ retval[s] = NoValue

\* this step is the successful return of get_trace(*inputs)
GetTraceReturns ==
    /\ Len(frames) = 1
    /\ frames[1].mode = "get_trace"
    /\ frames' = << >>
    /\ status'[1] = "returned"

TypeTags == {"input", "return", "sample", "param"}

\* C11: every node of a trace held or returned by a scope has one of the
\* type tags input, return, sample, param (a pseudo-site is a sample node
\* with the subsample mark), and the node that stores the arguments has
\* type input
C11_TypeTags ==
    \A o \in ObjIds :
        \A i \in 1 .. Len(traces[o].nodes) :
            LET node == traces[o].nodes[i]
            IN /\ node.type \in TypeTags
               /\ node.name = "_INPUT" => node.type = "input"

\* the stack gains one entry at the top, loses its top entry, or stays
StackStepLIFO ==
    \/ stack' = stack
    \/ \E h \in Handlers : stack' = Append(stack, h)
    \/ stack # << >> /\ stack' = Pop(stack)

\* uninstall(h): the top entry goes when it is h; otherwise StackCorruption
\* and the stack as it was
UninstallStrict ==
    \A h \in Scopes :
        HandlerExit(h) =>
            IF stack # << >> /\ stack[Len(stack)] = h
            THEN stack' = Pop(stack) /\ observed' = observed
            ELSE stack' = stack /\ observed' = "StackCorruption"

\* an invocation that ends, normally or not, takes its own handler off the
\* top of the stack, and nothing it does raises StackCorruption
NestedScopesBalanced ==
    frames # << >> =>
        /\ exc' # "StackCorruption"
        /\ observed' # "StackCorruption"
        /\ Len(frames') < Len(frames) =>
             /\ stack[Len(stack)] = Top.scope
             /\ stack' = Pop(stack)
        /\ Len(frames') > Len(frames) =>
             stack' = Append(stack, frames'[Len(frames')].scope)
        /\ Len(frames') = Len(frames) => stack' = stack

\* C12: installation and removal are LIFO; uninstall(h) removes the top entry
\* when it is h and fails with StackCorruption, leaving the stack alone, when
\* it is not; properly nested scopes never raise StackCorruption
C12_StackLIFO ==
    [][StackStepLIFO /\ UninstallStrict /\ NestedScopesBalanced]_vars

\* handler 1 was exited by hand while handler 2 was the top: the failure
\* is seen and both entries are still there
C12_Witness ==
    /\ frames = << >>
    /\ stack = <<1, 2>>
    /\ observed = "StackCorruption"
    /\ \E i \in 1 .. Len(script[1]) : script[1][i].op = "call"

\* the hooks of the last dispatch: the process hooks first, from the innermost
\* handler outwards up to the first one that resolves, then, unless a process
\* hook failed, the postprocess hooks from the outermost handler inwards
DispatchOrder ==
    LET stk == calls.stack
        log == calls.log
        k == Len(stk)
        n == Cardinality({i \in 1 .. Len(log) : log[i].phase = "process"})
        m == Len(log) - n
    IN calls # NoCalls =>
         /\ k >= 1 /\ n >= 1 /\ n <= k
         /\ \A i \in 1 .. n : log[i] = Hook("process", stk[k - i + 1])
         /\ \A i \in 1 .. n - 1 : stk[k - i + 1] # Resolver
         /\ \A j \in 1 .. m : log[n + j] = Hook("postprocess", stk[j])
         /\ calls.err \in ProcessErrors => m = 0
         /\ calls.err \notin ProcessErrors => n = k \/ stk[k - n + 1] = Resolver
         /\ calls.err = "ok" => m = k
         /\ calls.err = ErrAddNode => m >= 1 /\ m <= k

\* a dispatch that succeeds appends the same node, once, to the trace of
\* every tracing handler on the stack and to no other trace
RecordedOnce ==
    calls' # calls /\ calls' # NoCalls /\ calls'.err = "ok" =>
        \A h \in Scopes :
            LET old == traces[live[h]]
                new == traces'[live[h]]
            IN IF h \in SeqRange(calls'.stack)
               THEN /\ Len(new.nodes) = Len(old.nodes) + 1
                    /\ new.nwrites = old.nwrites + 1
                    /\ SubSeq(new.nodes, 1, Len(old.nodes)) = old.nodes
                    /\ new.edges = old.edges
                    /\ new.nodes[Len(new.nodes)].type \in {"sample", "param"}
                    /\ new.nodes[Len(new.nodes)].value = ResolvedValue
                         <=> Resolver \in SeqRange(calls'.stack)
                    /\ \A g \in Scopes :
                         g \in SeqRange(calls'.stack) =>
                            traces'[live[g]].nodes[Len(traces'[live[g]].nodes)]
                               = new.nodes[Len(new.nodes)]
               ELSE live[h] # 0 => new = old

\* C13: process_effect runs innermost to outermost and stops at the first
\* handler that sets done; then postprocess_effect runs on every active
\* handler, outermost to innermost, never before the process walk is over;
\* nested tracing handlers each record the effect exactly once
C13_DispatchOrder == []DispatchOrder /\ [][RecordedOnce]_vars

\* an effect was dispatched by hand over tracing handler 1, the resolving
\* handler and tracing handler 2 inside it: handler 1 never processed it,
\* all three postprocessed it
C13_Witness ==
    /\ calls.stack = <<1, Resolver, 2>>
    /\ calls.err = "ok"
    /\ calls.log = <<Hook("process", 2), Hook("process", Resolver),
                     Hook("postprocess", 1), Hook("postprocess", Resolver),
                     Hook("postprocess", 2)>>
    /\ NodeOf(traces[1], "h").value = ResolvedValue
    /\ NodeOf(traces[2], "h").value = ResolvedValue

\* C14: no Warping kernel is created from a list of coefficients that
\* contains a negative one, integer or not
C14_NegativeCoefRejected ==
    \A i \in 1 .. Len(gp.heap) :
        LET k == gp.heap[i]
        IN k.cls = "Warping" /\ ~ k.owarping_coef.none =>
              \A c \in SeqSet(k.owarping_coef.list) : c.val >= 0

Dims(i) == SeqSet(gp.heap[i].active_dims)

\* the sequence q lists the set S in increasing order, each element once
SortedUnion(q, S) ==
    /\ SeqSet(q) = S
    /\ \A j \in 1 .. Len(q) - 1 : q[j] < q[j + 1]

\* what a step that is kern_i.add(o) or kern_i.mul(o) has to do
CombinationStep(i, o) ==
    LET d0 == Dims(i)
        d1 == IF o.kind = "kernel" THEN Dims(o.ref) ELSE {}
        partial == o.kind = "kernel" /\ d0 # d1 /\ d0 \cap d1 # {}
    IN /\ partial => gp'.err = "ValueError" /\ gp'.heap = gp.heap
       /\ gp'.err = "ok" =>
            LET new == gp'.heap[Len(gp'.heap)]
            IN /\ ~ partial
               /\ Len(gp'.heap) = Len(gp.heap) + 1
               /\ SortedUnion(new.active_dims, d0 \cup d1)
               /\ new.input_dim = Len(new.active_dims)
               /\ o.kind = "number" => SeqSet(new.active_dims) = d0
               /\ o.kind = "kernel" /\ d0 = d1 => SeqSet(new.active_dims) = d0

DimsConsistent ==
    \A i \in 1 .. Len(gp.heap) : gp.heap[i].input_dim = Len(gp.heap[i].active_dims)

\* C15: add and mul succeed only on operands whose active_dims coincide or
\* are disjoint, and raise ValueError when they overlap partially; the new
\* kernel's active_dims is the sorted union without duplicates and its
\* input_dim is its length, so input_dim = len(active_dims) for every kernel
C15_CombinedDims ==
    /\ []DimsConsistent
    /\ [][gp' # gp /\ gp'.call.op \in {"add", "mul"} =>
             CombinationStep(gp'.call.kern, gp'.call.other)]_vars

\* a kernel on dimension 1 was combined with one on dimension 0, and the
\* result with a number
C15_Witness ==
    /\ Len(gp.heap) = 3
    /\ gp.err = "ok"
    /\ gp.heap[1].active_dims = <<1>>
    /\ gp.heap[2].active_dims = <<0>>
    /\ gp.heap[3].cls \in {"Sum", "Product"}
    /\ gp.heap[3].kern0 = 1
    /\ gp.heap[3].kern1 = KernelRef(2)
    /\ gp.heap[3].active_dims = <<0, 1>>
    /\ gp.heap[3].input_dim = 2

\* one invocation of scope s with arguments a, run to its end in one go from
\* the traces heap and the stack stk: the steps of its computation from pc on
RECURSIVE run_steps(_, _, _, _, _, _)
RECURSIVE invoke(_, _, _, _, _)
run_steps(s, pc, heap, stk, a, kw) ==
    IF pc > Len(script[s]) THEN [heap |-> heap, err |-> "ok"]
    ELSE LET st == script[s][pc]
         IN IF st.op \in {"sample", "param"}
            THEN LET r == apply_stack(heap, [t \in Scopes |-> t], stk,
                                      Msg(st.op, st.name, a, st.cond_indep_stack,
                                          st.subsample))
                 IN IF r.err # "ok" THEN [heap |-> r.heap, err |-> r.err]
                    ELSE run_steps(s, pc + 1, r.heap, stk, a, kw)
            ELSE IF st.op = "raise"
            THEN IF a = 1 THEN [heap |-> heap, err |-> "UserError"]
                 ELSE run_steps(s, pc + 1, heap, stk, a, kw)
            ELSE LET r == invoke(2, heap, stk, a, kw)
                 IN IF r.err # "ok" THEN r
                    ELSE run_steps(s, pc + 1, r.heap, stk, a, kw)

invoke(s, heap, stk, a, kw) ==
    LET begun == [heap EXCEPT ![s] = call_begin(heap[s], graph_type[s], a, kw)]
        inside == install(stk, s)
        r == run_steps(s, 1, begun, inside, a, kw)
    IN IF r.err = "ok"
       THEN LET f == call_finish(r.heap[s], graph_type[s], inside, s, fn_result(a))
            IN [heap |-> [r.heap EXCEPT ![s] = f.trace], err |-> f.err]
       ELSE LET ex == TraceMessenger_exit(r.heap[s], graph_type[s], inside, s)
            IN [heap |-> [r.heap EXCEPT ![s] = ex.trace], err |-> r.err]

\* the invocation of scope s with the arguments of its trace, had nothing
\* been invoked before
FromScratch(s) ==
    LET input == NodeOf(traces[s], "_INPUT")
    IN invoke(s, [o \in ObjIds |-> NoTrace], << >>, input.args, input.kwargs)

\* the trace of an invocation that returned is the one the same invocation
\* leaves when nothing was invoked before it
FreshResult ==
    \A s \in Scopes :
        status[s] = "returned" =>
            /\ FromScratch(s).err = "ok"
            /\ Contents(FromScratch(s).heap[s]) = Contents(traces[s])

\* an invocation begins with a trace that holds the input node and nothing else
BeginsFresh ==
    Len(frames') > Len(frames) =>
        LET f == frames'[Len(frames')]
            tr == traces'[f.scope]
        IN /\ Len(tr.nodes) = 1
           /\ tr.nodes[1].name = "_INPUT"
           /\ tr.nodes[1].args = f.args
           /\ tr.nodes[1].kwargs = f.kwargs
           /\ tr.edges = {}
           /\ tr.graph_type = graph_type[f.scope]

\* C16: every invocation starts from a fresh Trace, so the trace after an
\* invocation holds no node and no edge of an earlier one; an invocation
\* that returns after a failed one leaves what it leaves without it
C16_FreshTrace == []FreshResult /\ [][BeginsFresh]_vars

\* the caller holds the partial trace of an invocation of scope 1 that failed
\* for args 1, with site a in it, and scope 1 has then returned for args 0
\* with the same site in its trace
C16_Witness ==
    /\ copyRef # 0
    /\ traces[copyRef].graph_type = graph_type[1]
    /\ NodeOf(traces[copyRef], "_INPUT").args = 1
    /\ ~ InTrace(traces[copyRef], "_RETURN")
    /\ InTrace(traces[copyRef], "a")
    /\ \E i \in 1 .. Len(script[1]) : script[1][i].op = "raise"
    /\ frames = << >>
    /\ status[1] = "returned"
    /\ NodeOf(traces[1], "_INPUT").args = 0
    /\ InTrace(traces[1], "a")

\* the edges the builder gives the nodes of tr
BuilderEdges(tr) == identify_dense_edges([tr EXCEPT !.edges = {}]).edges

\* no edge while the computation runs; afterwards, in dense mode, the edges
\* of the builder over the nodes of the invocation
EdgesByStatus ==
    \A s \in Scopes :
        /\ status[s] = "active" => traces[s].edges = {}
        /\ status[s] \in {"returned", "failed"} /\ graph_type[s] = "dense" =>
              traces[s].edges = BuilderEdges(traces[s])

\* the step that ends an invocation, normally or by a failure, takes the
\* handler off the stack and gives a dense trace the builder's edges over
\* the nodes recorded up to then
EdgesAtExit ==
    Len(frames') < Len(frames) =>
        LET s == Top.scope
        IN /\ stack' = Pop(stack)
           /\ traces'[s].edges = IF graph_type[s] = "dense"
                                 THEN BuilderEdges(traces[s]) ELSE {}
           /\ \A t \in Scopes \ {s} : traces'[t].edges = traces[t].edges

\* C17: in dense mode the edge builder runs in the exit hook, on the normal
\* and on the failure path, over the nodes of the invocation; the live trace
\* has no edges while the computation runs, and when invoke returns its
\* edges are the builder's output
C17_EdgesAtExit == []EdgesByStatus /\ [][EdgesAtExit]_vars

\* a dense invocation of scope 1 has failed by itself after two joined
\* sample sites, and its trace has their edge
C17_Witness ==
    /\ frames = << >>
    /\ graph_type[1] = "dense"
    /\ status[1] = "failed"
    /\ observed = "UserError"
    /\ traces[1].edges # {}
    /\ ~ InTrace(traces[1], "_RETURN")

\* the node postprocess_effect writes for the settled message m
SiteOf(m) ==
    Node(m.name, m.type, m.value, m.cond_indep_stack, m.subsample, NoValue, NoValue)

\* what the hooks of the tracing handlers do in one dispatch
HooksFrame ==
    calls' # calls /\ calls' # NoCalls =>
        LET c == calls'
            tracing == {h \in Scopes : h \in SeqRange(c.stack)}
        IN /\ Resolver \notin SeqRange(c.stack) => c.msg = c.sent
           /\ c.err \in ProcessErrors => traces' = traces
           /\ \A o \in ObjIds :
                o \notin {live[h] : h \in tracing} => traces'[o] = traces[o]
           /\ \A h \in tracing :
                \/ /\ c.err = "ok"
                   /\ traces'[live[h]] = add_node(traces[live[h]], SiteOf(c.msg))
                \/ /\ c.err = ErrAddNode
                   /\ traces'[live[h]] \in {traces[live[h]],
                                           add_node(traces[live[h]], SiteOf(c.msg))}
                \/ /\ c.err \in ProcessErrors
                   /\ traces'[live[h]] = traces[live[h]]

ResetStep(s) ==
    LET old == traces[live[s]]
        new == traces'[live'[s]]
    IN /\ new.graph_type = graph_type[s]
       /\ new.edges = {}
       /\ new.nwrites = 1
       /\ Len(new.nodes) = 1
       /\ new.nodes[1].name = "_INPUT"
       /\ new.nodes[1].type = "input"
       /\ new.nodes[1].args = NodeOf(old, "_INPUT").args
       /\ new.nodes[1].kwargs = NodeOf(old, "_INPUT").kwargs
       /\ \A o \in ObjIds \ {live[s]} : traces'[o] = traces[o]
       /\ copyRef' = copyRef

Position(tr, n) == CHOOSE i \in 1 .. Len(tr.nodes) : tr.nodes[i].name = n

\* the edges of a scan that pairs each sample node with the sample nodes at
\* the positions before it
EdgesByPosition(tr) ==
    {<<tr.nodes[j].name, tr.nodes[i].name>> :
        <<j, i>> \in {<<j, i>> \in (1 .. Len(tr.nodes)) \X (1 .. Len(tr.nodes)) :
                        /\ j < i
                        /\ tr.nodes[i].type = "sample"
                        /\ ~ site_is_subsample(tr.nodes[i])
                        /\ tr.nodes[j].type = "sample"
                        /\ ~ Independent(tr.nodes[i].cond_indep_stack,
                                         tr.nodes[j].cond_indep_stack)}}

\* C20: every edge the builder adds joins two sample nodes, the first one
\* recorded strictly before the second, so there is no self-loop, no edge at
\* an input, return or param node and no cycle; the scan that stops at the
\* current node's name adds the edges of a scan over the earlier positions
C20_EdgesForward ==
    hand.ran =>
        /\ \A e \in hand.trace.edges :
             /\ InTrace(hand.trace, e[1]) /\ InTrace(hand.trace, e[2])
             /\ Position(hand.trace, e[1]) < Position(hand.trace, e[2])
             /\ NodeOf(hand.trace, e[1]).type = "sample"
             /\ NodeOf(hand.trace, e[2]).type = "sample"
        /\ hand.trace.edges = EdgesByPosition(hand.trace)

\* three sample sites outside any context: each one has an edge from every
\* earlier one and none from a later one or from itself
C20_Witness ==
    /\ hand.ran
    /\ Len(hand.trace.nodes) = 3
    /\ \A i \in 1 .. 3 : /\ hand.trace.nodes[i].type = "sample"
                         /\ ~ hand.trace.nodes[i].subsample
                         /\ hand.trace.nodes[i].cond_indep_stack = << >>
    /\ hand.trace.edges = {<<"1", "2">>, <<"1", "3">>, <<"2", "3">>}

\* a kernel made by add, mul, exp, vertical_scale or warp
Composite(i) == gp.heap[i].kern0 # 0

\* the kernels at the leaves of the composition tree of kernel i
RECURSIVE Leaves(_)
Leaves(i) ==
    LET k == gp.heap[i]
    IN IF k.kern0 = 0 THEN {i}
       ELSE Leaves(k.kern0)
            \cup (IF k.kern1.kind = "kernel" THEN Leaves(k.kern1.ref) ELSE {})

\* the names get_subkernel is asked for: the leaves' names, the name of the
\* composites and one that no kernel has
LookupNames == KernelNames \cup {"None", "c"}

\* the registry of the composite i lists its leaves, each once and under its
\* own name, and get_subkernel answers from it
RegistryIsLeaves(i) ==
    LET sub == gp.heap[i]._subkernels
    IN /\ SeqSet(sub) = {Entry(gp.heap[l].name, l) : l \in Leaves(i)}
       /\ Len(sub) = Cardinality(Leaves(i))
       /\ \A j, k \in 1 .. Len(sub) : j # k => sub[j].name # sub[k].name
       /\ \A e \in SeqSet(sub) : ~ Composite(e.kernel)
       /\ \A n \in LookupNames :
            get_subkernel(gp.heap[i], n) =
                IF \E l \in Leaves(i) : gp.heap[l].name = n
                THEN [err |-> "ok",
                      kernel |-> CHOOSE l \in Leaves(i) : gp.heap[l].name = n]
                ELSE [err |-> "KeyError"]

Registries ==
    \A i \in 1 .. Len(gp.heap) : Composite(i) => RegistryIsLeaves(i)

\* the operands of kern_i.add(o) or kern_i.mul(o) bring two different
\* kernels under one name
NameClash(i, o) ==
    \E a \in Leaves(i), b \in Leaves(o.ref) :
        a # b /\ gp.heap[a].name = gp.heap[b].name

\* the active_dims of the operands overlap without being equal
PartialOverlap(i, o) ==
    Dims(i) # Dims(o.ref) /\ Dims(i) \cap Dims(o.ref) # {}

\* what a step that is kern_i.add(o) or kern_i.mul(o), o a kernel, has to do
\* once the active_dims have been accepted
MergeStep(i, o) ==
    o.kind = "kernel" =>
        /\ gp'.err = "KeyError" <=> NameClash(i, o) /\ ~ PartialOverlap(i, o)
        /\ gp'.err = "ValueError" <=> PartialOverlap(i, o)
        /\ gp'.err # "ok" => gp'.heap = gp.heap
        /\ gp'.err = "ok" =>
              /\ Len(gp'.heap) = Len(gp.heap) + 1
              /\ Len(gp'.heap[Len(gp'.heap)]._subkernels)
                    = Cardinality(Leaves(i) \cup Leaves(o.ref))

\* the same step, with the name test deciding alone
MergeStepAlways(i, o) ==
    o.kind = "kernel" =>
        /\ NameClash(i, o) => gp'.err = "KeyError"
        /\ ~ NameClash(i, o) => gp'.err = "ok"

\* C21 as stated: the registry of every composite kernel holds exactly the
\* leaves of its composition tree, each under its own name, and get_subkernel
\* answers from it; every add or mul whose operands bring two different
\* kernels under one name raises KeyError, and every other one is accepted
C21_RegistryAlways ==
    /\ []Registries
    /\ [][gp' # gp /\ gp'.call.op \in {"add", "mul"} =>
             MergeStepAlways(gp'.call.kern, gp'.call.other)]_vars

\* C21, amended: the registry of every composite kernel holds exactly the
\* leaves of its composition tree, each once and under its own name, never a
\* composite, and get_subkernel returns the leaf for a registered name and
\* raises KeyError for any other; an add or mul whose operands' active_dims
\* coincide or are disjoint raises KeyError exactly when the operands bring
\* two different kernels under one name, and otherwise registers a kernel
\* reached through both operands once; with partially overlapping
\* active_dims it raises ValueError whatever the names are
C21_Registry ==
    /\ []Registries
    /\ [][gp' # gp /\ gp'.call.op \in {"add", "mul"} =>
             MergeStep(gp'.call.kern, gp'.call.other)]_vars

\* two different kernels of the same name on the same dimensions were
\* combined, and the call raised KeyError and made no kernel
C21_Witness ==
    /\ Len(gp.heap) = 2
    /\ gp.heap[1].name = gp.heap[2].name
    /\ gp.heap[1].active_dims = gp.heap[2].active_dims
    /\ ~ Composite(1) /\ ~ Composite(2)
    /\ gp.call.op \in {"add", "mul"}
    /\ gp.call = KernelCall(gp.call.op, 1, KernelRef(2))
    /\ gp.err = "KeyError"

====
